---- MODULE Spec2Model ----
(***************************************************************************)
(* Moderation pipeline of server.js: POST /recompensas (producer), the     *)
(* BullMQ queue "moderation" (attempts: 3, removeOnComplete, removeOnFail), *)
(* the Worker("moderation") handler and the heuristic scorer evaluateText.  *)
(*                                                                         *)
(* Text is a sequence of one-character strings; every await of a handler   *)
(* is a step of its own, and every await may reject (I/O failure).          *)
(***************************************************************************)
EXTENDS Integers, Sequences, FiniteSets, Bags, TLC

\* ------------------------------------------------------------------ bounds
\* listings createListing may insert
MaxListings == 1
\* handler executions that may run at the same time (worker instances)
NumWorkers == 2

\* --------------------------------------------------------------- the text
Digits == {"0", "1", "2", "3", "4", "5", "6", "7", "8", "9"}

UpperCase ==
  {"A", "B", "C", "D", "E", "F", "G", "H", "I", "J", "K", "L", "M",
   "N", "O", "P", "Q", "R", "S", "T", "U", "V", "W", "X", "Y", "Z"}

LowerCase ==
  {"a", "b", "c", "d", "e", "f", "g", "h", "i", "j", "k", "l", "m",
   "n", "o", "p", "q", "r", "s", "t", "u", "v", "w", "x", "y", "z"}

\* \w of a JavaScript regular expression without the u flag: [A-Za-z0-9_]
IsWordChar(c) == c \in Digits \cup UpperCase \cup LowerCase \cup {"_"}

\* String.prototype.toLowerCase, one character
LowerChar(c) ==
  CASE c = "A" -> "a" [] c = "B" -> "b" [] c = "C" -> "c" [] c = "D" -> "d"
    [] c = "E" -> "e" [] c = "F" -> "f" [] c = "G" -> "g" [] c = "H" -> "h"
    [] c = "I" -> "i" [] c = "J" -> "j" [] c = "K" -> "k" [] c = "L" -> "l"
    [] c = "M" -> "m" [] c = "N" -> "n" [] c = "O" -> "o" [] c = "P" -> "p"
    [] c = "Q" -> "q" [] c = "R" -> "r" [] c = "S" -> "s" [] c = "T" -> "t"
    [] c = "U" -> "u" [] c = "V" -> "v" [] c = "W" -> "w" [] c = "X" -> "x"
    [] c = "Y" -> "y" [] c = "Z" -> "z" [] c = "Ç" -> "ç"
    [] OTHER -> c

\* String(text || "").toLowerCase()
toLowerCase(t) == [i \in 1..Len(t) |-> LowerChar(t[i])]

\* t.includes(w): w occurs in t as a contiguous substring
includes(t, w) ==
  \E i \in 1..(Len(t) - Len(w) + 1) : SubSeq(t, i, i + Len(w) - 1) = w

BANNED ==
  << <<"m","a","t","a","r">>,
     <<"a","s","s","a","s","s","i","n","a","r">>,
     <<"s","e","q","u","e","s","t","r","o">>,
     <<"d","r","o","g","a","s">>,
     <<"i","n","v","a","d","i","r"," ","c","o","n","t","a">>,
     <<"h","a","c","k","e","a","r">>,
     <<"e","n","d","e","r","e","c","o"," ","r","e","s","i","d","e","n","c","i","a","l"," ","d","e">>,
     <<"c","p","f"," ","d","e">>,
     <<"c","h","a","n","t","a","g","e","m">>,
     <<"e","s","p","i","o","n","a","r">>,
     <<"c","r","i","a","n","ç","a">>,
     <<"p","o","r","n","o","g","r","a","f","i","a">>,
     <<"e","x","p","l","o","s","i","v","o">>,
     <<"a","r","m","a">>,
     <<"b","r","a","n","c","o","/","n","e","g","r","o","/","g","a","y">> >>

SENSITIVE ==
  << <<"d","e","s","c","o","b","r","i","r"," ","e","n","d","e","r","e","c","o">>,
     <<"s","e","g","u","i","r"," ","p","e","s","s","o","a">>,
     <<"m","o","n","i","t","o","r","a","r">>,
     <<"l","o","c","a","l","i","z","a","r"," ","p","e","s","s","o","a">>,
     <<"d","o","c","u","m","e","n","t","o","s"," ","p","e","s","s","o","a","i","s">>,
     <<"s","e","n","h","a">>,
     <<"c","o","d","i","g","o"," ","2","f","a">>,
     <<"d","a","d","o","s"," ","b","a","n","c","a","r","i","o","s">> >>

\* a character sequence as one string value
RECURSIVE Str(_)
Str(w) == IF w = <<>> THEN "" ELSE Head(w) \o Str(Tail(w))

AllDigits(s) == \A i \in 1..Len(s) : s[i] \in Digits

\* \d{1,3}(\.\d{3})*
Grouped(s) ==
  \E k \in 1..3 :
    /\ k <= Len(s)
    /\ AllDigits(SubSeq(s, 1, k))
    /\ (Len(s) - k) % 4 = 0
    /\ \A g \in 0..(((Len(s) - k) \div 4) - 1) :
         /\ s[k + 4 * g + 1] = "."
         /\ AllDigits(SubSeq(s, k + 4 * g + 2, k + 4 * g + 4))

\* (\d{1,3}(\.\d{3})*|\d+)
Numeral(s) == Grouped(s) \/ (Len(s) >= 1 /\ AllDigits(s))

\* (\d{1,3}(\.\d{3})*|\d+)(,\d{2})?
Valor(s) ==
  \/ Numeral(s)
  \/ /\ Len(s) >= 4
     /\ s[Len(s) - 2] = ","
     /\ AllDigits(SubSeq(s, Len(s) - 1, Len(s)))
     /\ Numeral(SubSeq(s, 1, Len(s) - 3))

\* \b at the gap before position i of t (i in 1..Len(t)+1)
WordBoundary(t, i) ==
  LET before == i > 1 /\ IsWordChar(t[i - 1])
      after  == i <= Len(t) /\ IsWordChar(t[i])
  IN  before # after

\* /\b(\d{1,3}(\.\d{3})*|\d+)(,\d{2})?\b/.test(t)
valoresTest(t) ==
  \E i \in 1..Len(t) : \E j \in i..Len(t) :
    /\ WordBoundary(t, i)
    /\ Valor(SubSeq(t, i, j))
    /\ WordBoundary(t, j + 1)

Urgente == <<"u","r","g","e","n","t","e">>
Imediato == <<"i","m","e","d","i","a","t","o">>

BannedPrefix == <<"B","A","N","N","E","D">>
SensitivePrefix == <<"S","E","N","S","I","T","I","V","E">>

\* the flags pushed by one of the two loops over a word list: `${prefix}:${w}`
RECURSIVE FlagsOf(_, _, _)
FlagsOf(t, words, prefix) ==
  IF words = <<>> THEN <<>>
  ELSE (IF includes(t, Head(words))
          THEN << prefix \o <<":">> \o Head(words) >> ELSE <<>>)
         \o FlagsOf(t, Tail(words), prefix)

BannedPoints == 100
SensitivePoints == 30
ValorPoints == 5
UrgencyPoints == 5

\* evaluateText had every occurrence of a banned term counted (C15)
evaluateTextPerOccurrence(text) ==
  LET t  == toLowerCase(text)
      fb == FlagsOf(t, BANNED, BannedPrefix)
      fs == FlagsOf(t, SENSITIVE, SensitivePrefix)
      occurrences ==
        {<<k, i>> \in (1..Len(BANNED)) \X (1..Len(t)) :
           /\ i + Len(BANNED[k]) - 1 <= Len(t)
           /\ SubSeq(t, i, i + Len(BANNED[k]) - 1) = BANNED[k]}
  IN  [ score |-> Cardinality(occurrences) * BannedPoints
                    + Len(fs) * SensitivePoints
                    + (IF valoresTest(t) THEN ValorPoints ELSE 0)
                    + (IF includes(t, Urgente) \/ includes(t, Imediato)
                         THEN UrgencyPoints ELSE 0),
        flags |-> fb \o fs ]

\* evaluateText had the SENSITIVE loop come before the BANNED loop (C16)
evaluateTextSensitiveFirst(text) ==
  LET t  == toLowerCase(text)
      fb == FlagsOf(t, BANNED, BannedPrefix)
      fs == FlagsOf(t, SENSITIVE, SensitivePrefix)
  IN  [ score |-> Len(fb) * BannedPoints + Len(fs) * SensitivePoints
                    + (IF valoresTest(t) THEN ValorPoints ELSE 0)
                    + (IF includes(t, Urgente) \/ includes(t, Imediato)
                         THEN UrgencyPoints ELSE 0),
        flags |-> fs \o fb ]

\* function evaluateText(text)
evaluateText(text) ==
  LET t  == toLowerCase(text)
      fb == FlagsOf(t, BANNED, BannedPrefix)
      fs == FlagsOf(t, SENSITIVE, SensitivePrefix)
  IN  [ score |-> Len(fb) * BannedPoints + Len(fs) * SensitivePoints
                    + (IF valoresTest(t) THEN ValorPoints ELSE 0)
                    + (IF includes(t, Urgente) \/ includes(t, Imediato)
                         THEN UrgencyPoints ELSE 0),
        flags |-> fb \o fs ]

\* f.startsWith("BANNED")
startsWith(f, prefix) ==
  Len(f) >= Len(prefix) /\ SubSeq(f, 1, Len(prefix)) = prefix

\* flags.join(", ")
RECURSIVE join(_)
join(flags) ==
  IF flags = <<>> THEN <<>>
  ELSE IF Len(flags) = 1 THEN Head(flags)
  ELSE Head(flags) \o <<",", " ">> \o join(Tail(flags))

\* ------------------------------------------------------- request bodies
\* the bodies a caller of POST /recompensas sends: titulo, descricao, and
\* fields the handler does not destructure (a status and a riskScore of the
\* caller's choosing)
Inputs ==
  { [titulo |-> <<"s","e","n","h","a">>, descricao |-> <<"5","0">>,
     status |-> "PUBLICADA", riskScore |-> <<0>>],
    [titulo |-> <<"s","e","n","h","a"," ","5","0">>,
     descricao |-> <<"i","m","e","d","i","a","t","o">>,
     status |-> "PUBLICADA", riskScore |-> <<0>>],
    [titulo |-> <<"A","R","M","A">>, descricao |-> <<"s","e","n","h","a">>,
     status |-> "PUBLICADA", riskScore |-> <<0>>] }

\* `${r.titulo}\n${r.descricao}`
fullText(r) == r.titulo \o <<"\n">> \o r.descricao

\* evaluateText of the texts a run can hold, each evaluated once
Evaluated == [t \in {fullText(inp) : inp \in Inputs} |-> evaluateText(t)]

\* ------------------------------------------------------------ the state
VARIABLES
  store,     \* table recompensa: sequence of rows, the id is the position
  ledger,    \* table moderacaoEvento: a bag of rows
  queue,     \* jobs of the queue "moderation", keyed by job.data.recompensaId
  running,   \* the handler executions under way: a bag of their local states
  pending,   \* POST /recompensas requests between the insert and the enqueue
  resp,      \* the last response sent (POST /recompensas, GET /recompensas)
  writes,    \* history: the prisma.recompensa.update calls made, per id
  returned,  \* history: the handler executions that returned, per job enqueued
  rejected,  \* history: the awaits of a handler that rejected, per job enqueued
  text,      \* the argument of a call of evaluateText on its own
  scored     \* what that call returned

vars == <<store, ledger, queue, running, pending, resp, writes, returned, rejected,
          text, scored>>

\* the attempts option of moderationQueue.add
attempts == 3

\* the maxStalledCount option of the Worker (not given: the default)
maxStalledCount == 1

\* id of a listing deleted before the run: a job of the durable queue may
\* still carry it
DeletedId == 0

\* an optional column without a value (null)
Unset == <<>>

\* the riskScore of a row whose create gives none: the column's default
riskScoreDefault == Unset

NewJob == [state |-> "wait", attemptsMade |-> 0, stalledCounter |-> 0]

NoResponse == [code |-> 0, id |-> 0, status |-> ""]

\* the ids moderationQueue.add accepted so far
enqueued == DOMAIN returned

InitWith(jobs) ==
  /\ store = <<>>
  /\ ledger = EmptyBag
  /\ queue = jobs
  /\ running = EmptyBag
  /\ pending = {}
  /\ resp = NoResponse
  /\ writes = <<>>
  /\ returned = [j \in DOMAIN jobs |-> 0]
  /\ rejected = [j \in DOMAIN jobs |-> 0]

\* evaluateText has not returned
NotScored == [score |-> -1, flags |-> <<>>]

\* no call of evaluateText on its own
NoCall ==
  /\ text = <<>>
  /\ scored = NotScored

\* a fresh deployment: empty tables, empty queue
Init == InitWith(<<>>) /\ NoCall

\* ------------------------------------------------------------- producer
\* NewRow had the handler spread req.body into the data (C6)
NewRowFromBody(inp) ==
  [titulo |-> inp.titulo, descricao |-> inp.descricao,
   status |-> inp.status, riskScore |-> inp.riskScore]

\* the data of prisma.recompensa.create: status is the literal "EM_REVISAO",
\* riskScore is not given
NewRow(inp) ==
  [titulo |-> inp.titulo, descricao |-> inp.descricao,
   status |-> "EM_REVISAO", riskScore |-> riskScoreDefault]

\* res.status(400).json({ erro: e.message })
ErrorResponse == [code |-> 400, id |-> 0, status |-> "erro"]

\* res.json({ id: r.id, status: r.status }), r the row the create returned
OkResponse(id, r) == [code |-> 200, id |-> id, status |-> r.status]

\* PostCreate had the handler gone on to the enqueue without the row
\* committed (C12)
PostCreateUncommitted(inp) ==
  /\ Len(store) < MaxListings
  /\ pending' = pending \cup {Len(store) + 1}
  /\ UNCHANGED <<store, writes, ledger, queue, running, resp, returned, rejected, text, scored>>

\* POST /recompensas up to the resolved create
PostCreate(inp) ==
  /\ Len(store) < MaxListings
  /\ store' = Append(store, NewRow(inp))
  /\ writes' = Append(writes, 0)
  /\ pending' = pending \cup {Len(store) + 1}
  /\ UNCHANGED <<ledger, queue, running, resp, returned, rejected, text, scored>>

\* PostCreateRejected had the catch enqueued a job for the row that was not
\* created (C13)
PostCreateRejectedEnqueues ==
  /\ resp' = ErrorResponse
  /\ queue' = queue @@ ((Len(store) + 1) :> NewJob)
  /\ returned' = returned @@ ((Len(store) + 1) :> 0)
  /\ rejected' = rejected @@ ((Len(store) + 1) :> 0)
  /\ UNCHANGED <<store, ledger, running, pending, writes, text, scored>>

\* POST /recompensas whose create rejects: catch, 400
PostCreateRejected ==
  /\ resp' = ErrorResponse
  /\ UNCHANGED <<store, ledger, queue, running, pending, writes, returned, rejected, text, scored>>

\* enqueueRecompensaModeration resolves, then the response
PostEnqueue(id) ==
  /\ id \in pending
  /\ queue' = queue @@ (id :> NewJob)
  /\ returned' = returned @@ (id :> 0)
  /\ rejected' = rejected @@ (id :> 0)
  /\ pending' = pending \ {id}
  /\ resp' = OkResponse(id, NewRow(store[id]))
  /\ UNCHANGED <<store, ledger, running, writes, text, scored>>

\* moderationQueue.add rejects: catch, 400; the row stays
PostEnqueueRejected(id) ==
  /\ id \in pending
  /\ pending' = pending \ {id}
  /\ resp' = ErrorResponse
  /\ UNCHANGED <<store, ledger, queue, running, writes, returned, rejected, text, scored>>

\* ---------------------------------------------------------------- queue
Remove(q, j) == [k \in DOMAIN q \ {j} |-> q[k]]

\* AfterFailure had the queue allowed one attempt more (C5)
AfterFailureOffByOne(q, j) ==
  IF q[j].attemptsMade + 1 <= attempts
    THEN [q EXCEPT ![j].state = "wait", ![j].attemptsMade = @ + 1]
    ELSE Remove(q, j)

\* a job whose handler threw: retried while attemptsMade < attempts, else
\* removed (removeOnFail)
AfterFailure(q, j) ==
  IF q[j].attemptsMade + 1 < attempts
    THEN [q EXCEPT ![j].state = "wait", ![j].attemptsMade = @ + 1]
    ELSE Remove(q, j)

\* AfterSuccess had the job been added without removeOnComplete and kept
\* where it is (C19)
AfterSuccessKept(q, j) == q

\* a job whose handler returned: removed (removeOnComplete)
AfterSuccess(q, j) == Remove(q, j)

\* a job found stalled: delivered again while it has stalled at most
\* maxStalledCount times, else failed and removed (removeOnFail)
AfterStall(q, j) ==
  IF q[j].stalledCounter + 1 > maxStalledCount
    THEN Remove(q, j)
    ELSE [q EXCEPT ![j].state = "wait", ![j].stalledCounter = @ + 1]

\* the handler executions under way
Executions == BagToSet(running)

\* execution e replaced by execution f
Step(e, f) == (running (-) SetToBag({e})) (+) SetToBag({f})

\* the locals of a handler execution that starts on job j, holding its lock
Started(j) == [rid |-> j, pc |-> "find", score |-> 0, flags |-> <<>>, lock |-> TRUE]

\* the handler execution e ends; only the holder of the job's lock moves the job
Finish(e, result) ==
  /\ running' = running (-) SetToBag({e})
  /\ returned' = IF result = "completed"
                   THEN [returned EXCEPT ![e.rid] = @ + 1] ELSE returned
  /\ queue' = IF ~e.lock THEN queue
              ELSE IF result = "completed" THEN AfterSuccess(queue, e.rid)
              ELSE AfterFailure(queue, e.rid)

\* a free worker takes a waiting job
Take(j) ==
  /\ BagCardinality(running) < NumWorkers
  /\ j \in DOMAIN queue
  /\ queue[j].state = "wait"
  /\ queue' = [queue EXCEPT ![j].state = "active"]
  /\ running' = running (+) SetToBag({Started(j)})
  /\ UNCHANGED <<store, ledger, pending, resp, writes, returned, rejected, text, scored>>

\* the lock of an active job expires while its handler still runs
Stall(e) ==
  /\ e \in Executions
  /\ e.lock
  /\ queue' = AfterStall(queue, e.rid)
  /\ running' = Step(e, [e EXCEPT !.lock = FALSE])
  /\ UNCHANGED <<store, ledger, pending, resp, writes, returned, rejected, text, scored>>

\* --------------------------------------------------------------- worker
\* Tier had the handler tested the score before the flags (C7)
TierScoreFirst(e) ==
  IF e.score >= 40 THEN "adj_create"
  ELSE IF \E i \in 1..Len(e.flags) : startsWith(e.flags[i], BannedPrefix) THEN "ban_update"
  ELSE "pub_update"

\* Tier had the handler tested score > 40 (C8)
TierAbove40(e) ==
  IF \E i \in 1..Len(e.flags) : startsWith(e.flags[i], BannedPrefix) THEN "ban_update"
  ELSE IF e.score > 40 THEN "adj_create"
  ELSE "pub_update"

\* Tier had the handler banned on any flag (C17)
TierAnyFlag(e) ==
  IF e.flags # <<>> THEN "ban_update"
  ELSE IF e.score >= 40 THEN "adj_create"
  ELSE "pub_update"

\* the branch the handler takes after evaluateText
Tier(e) ==
  IF \E i \in 1..Len(e.flags) : startsWith(e.flags[i], BannedPrefix) THEN "ban_update"
  ELSE IF e.score >= 40 THEN "adj_create"
  ELSE "pub_update"

\* UpdateData had the update added the score to the one stored (C2)
UpdateDataAdding(row, status, score) ==
  [row EXCEPT !.status = status,
              !.riskScore = IF @ = Unset THEN <<score>> ELSE <<@[1] + score>>]

\* prisma.recompensa.update({ where: { id }, data: { status, riskScore: score } })
UpdateData(row, status, score) ==
  [row EXCEPT !.status = status, !.riskScore = <<score>>]

\* the data of prisma.moderacaoEvento.create
Evento(id, acao, motivo) ==
  [recompensaId |-> id, recursoTipo |-> "Recompensa", recursoId |-> id,
   acao |-> acao, motivo |-> Str(motivo)]

Auto == <<"a","u","t","o">>

\* FindResult had the handler thrown on a missing listing (C10)
FindResultMissingThrows(e, found) ==
  IF ~found
    THEN Finish(e, "failed")
    ELSE LET ev == Evaluated[fullText(store[e.rid])]
         IN  /\ running' = Step(e, [e EXCEPT !.pc = Tier(ev),
                                             !.score = ev.score,
                                             !.flags = ev.flags])
             /\ UNCHANGED <<queue, returned>>

\* what the handler does with the result of findUnique: if (!r) return
FindResult(e, found) ==
  IF ~found
    THEN Finish(e, "completed")
    ELSE LET ev == Evaluated[fullText(store[e.rid])]
         IN  /\ running' = Step(e, [e EXCEPT !.pc = Tier(ev),
                                             !.score = ev.score,
                                             !.flags = ev.flags])
             /\ UNCHANGED <<queue, returned>>

\* const r = await prisma.recompensa.findUnique({ where: { id: recompensaId } })
FindUnique(e) ==
  /\ e \in Executions
  /\ e.pc = "find"
  /\ FindResult(e, e.rid \in DOMAIN store)
  /\ UNCHANGED <<store, ledger, pending, resp, writes, rejected, text, scored>>

\* await prisma.recompensa.update: where is the id alone, whatever the status
Update(e, at, status, next) ==
  /\ e \in Executions
  /\ e.pc = at
  /\ store' = [store EXCEPT ![e.rid] = UpdateData(@, status, e.score)]
  /\ writes' = [writes EXCEPT ![e.rid] = @ + 1]
  /\ running' = Step(e, [e EXCEPT !.pc = next])
  /\ UNCHANGED <<ledger, queue, pending, resp, returned, rejected, text, scored>>

\* await prisma.moderacaoEvento.create, the last statement of its branch
Create(e, at, acao, motivo) ==
  /\ e \in Executions
  /\ e.pc = at
  /\ ledger' = ledger (+) SetToBag({Evento(e.rid, acao, motivo)})
  /\ Finish(e, "completed")
  /\ UNCHANGED <<store, pending, resp, writes, rejected, text, scored>>

BanUpdate(e) == Update(e, "ban_update", "BANIDA", "ban_create")

\* BanCreate had the handler recorded the acao of the last branch (C18)
BanCreateApproves(e) == Create(e, "ban_create", "APROVAR", join(e.flags))

BanCreate(e) == Create(e, "ban_create", "REJEITAR", join(e.flags))
AdjCreate(e) == Create(e, "adj_create", "AJUSTAR", join(e.flags))
PubUpdate(e) == Update(e, "pub_update", "PUBLICADA", "pub_create")

\* PubCreate had the handler given the motivo of the other two branches (C9)
PubCreateJoined(e) == Create(e, "pub_create", "APROVAR", join(e.flags))

PubCreate(e) == Create(e, "pub_create", "APROVAR", Auto)

\* the await the handler is suspended on rejects: the handler throws
Throw(e) ==
  /\ e \in Executions
  /\ Finish(e, "failed")
  /\ rejected' = [rejected EXCEPT ![e.rid] = @ + 1]
  /\ UNCHANGED <<store, ledger, pending, resp, writes, text, scored>>

Next ==
  \/ \E inp \in Inputs : PostCreate(inp)
  \/ PostCreateRejected
  \/ \E id \in pending : PostEnqueue(id)
  \/ \E id \in pending : PostEnqueueRejected(id)
  \/ \E j \in DOMAIN queue : Take(j)
  \/ \E e \in Executions : Stall(e)
  \/ \E e \in Executions : FindUnique(e)
  \/ \E e \in Executions : BanUpdate(e)
  \/ \E e \in Executions : BanCreate(e)
  \/ \E e \in Executions : AdjCreate(e)
  \/ \E e \in Executions : PubUpdate(e)
  \/ \E e \in Executions : PubCreate(e)
  \/ \E e \in Executions : Throw(e)

Spec == Init /\ [][Next]_vars

\* a deployment whose durable queue still holds the job of a listing that
\* was deleted since
InitStale == InitWith(DeletedId :> NewJob) /\ NoCall

SpecStale == InitStale /\ [][Next]_vars

\* the await of moderationQueue.add settles: the route handler goes on to
\* res.json or to its catch
Settles == \A id \in 1..MaxListings : WF_vars(PostEnqueue(id) \/ PostEnqueueRejected(id))

SpecLive == Spec /\ Settles
\* ------------------------------------------------------------- the feed
\* take: 200 of the feed's findMany
take == 200

\* the ids of rows, newest first (orderBy: { criadoEm: "desc" }): ids are
\* given in creation order
RECURSIVE NewestFirst(_)
NewestFirst(ids) ==
  IF ids = {} THEN <<>>
  ELSE LET top == CHOOSE i \in ids : \A k \in ids : k <= i
       IN  <<top>> \o NewestFirst(ids \ {top})

\* findMany had the where clause left out the status (C11)
findManyAll(rows) ==
  LET ids == NewestFirst(DOMAIN rows)
  IN  SubSeq(ids, 1, IF Len(ids) < take THEN Len(ids) ELSE take)

\* prisma.recompensa.findMany({ where: { status: "PUBLICADA" }, orderBy, take })
\* of a request without categoria and scope (the widest feed)
findMany(rows) ==
  LET ids == NewestFirst({id \in DOMAIN rows : rows[id].status = "PUBLICADA"})
  IN  SubSeq(ids, 1, IF Len(ids) < take THEN Len(ids) ELSE take)

\* res.json(base.map(...)): of the columns modelled, id and titulo
FeedResponse(rows, base) ==
  [code |-> 200, id |-> 0, status |-> "",
   body |-> [k \in 1..Len(base) |-> [id |-> base[k], titulo |-> rows[base[k]].titulo]]]

\* GET /recompensas
GetFeed ==
  /\ resp' = FeedResponse(store, findMany(store))
  /\ UNCHANGED <<store, ledger, queue, running, pending, writes, returned, rejected, text, scored>>

NextFeed ==
  \/ Next
  \/ GetFeed

SpecFeed == Init /\ [][NextFeed]_vars
\* ----------------------------------------------------------- the scorer
\* fragments a text given to evaluateText is put together from
MaxFragments == 2

\* a banned term in upper case, a banned term that comes earlier in the
\* list, two sensitive terms, a numeral, the two urgency markers
Fragments ==
  { <<"A","R","M","A">>,
    <<"h","a","c","k","e","a","r">>,
    <<"s","e","n","h","a">>,
    <<"m","o","n","i","t","o","r","a","r">>,
    <<"1",",","5","0">>,
    Urgente,
    Imediato }

\* the texts of n fragments, one right after the other
RECURSIVE TextsOf(_)
TextsOf(n) ==
  IF n = 0 THEN {<<>>}
  ELSE LET shorter == TextsOf(n - 1)
       IN  {f \o t : f \in Fragments, t \in shorter}

ScorerTexts == UNION {TextsOf(n) : n \in 1..MaxFragments}

\* a caller is about to call evaluateText(text)
InitScorer ==
  /\ InitWith(<<>>)
  /\ text \in ScorerTexts
  /\ scored = NotScored

\* evaluateText(text) returns
Evaluate ==
  /\ scored = NotScored
  /\ scored' = evaluateText(text)
  /\ UNCHANGED <<store, ledger, queue, running, pending, resp, writes, returned,
                 rejected, text>>

NextScorer == Evaluate

SpecScorer == InitScorer /\ [][NextScorer]_vars
\* ------------------------------------ the pipeline without worker failures
\* no await of the handler rejects (those of POST /recompensas may): the
\* steps that are left
NextNoFailure ==
  \/ \E inp \in Inputs : PostCreate(inp)
  \/ PostCreateRejected
  \/ \E id \in pending : PostEnqueue(id)
  \/ \E id \in pending : PostEnqueueRejected(id)
  \/ \E j \in DOMAIN queue : Take(j)
  \/ \E e \in Executions : Stall(e)
  \/ \E e \in Executions : FindUnique(e)
  \/ \E e \in Executions : BanUpdate(e)
  \/ \E e \in Executions : BanCreate(e)
  \/ \E e \in Executions : AdjCreate(e)
  \/ \E e \in Executions : PubUpdate(e)
  \/ \E e \in Executions : PubCreate(e)

\* what the worker does: it takes a waiting job when it has a free slot, and
\* a handler execution goes on when its await resolves
WorkerStep ==
  \/ \E j \in DOMAIN queue : Take(j)
  \/ \E e \in Executions :
       \/ FindUnique(e)
       \/ BanUpdate(e)
       \/ BanCreate(e)
       \/ AdjCreate(e)
       \/ PubUpdate(e)
       \/ PubCreate(e)

\* the worker keeps running
SpecNoFailure == Init /\ [][NextNoFailure]_vars /\ WF_vars(WorkerStep)




\* ================================================================ claims
Terminal == {"PUBLICADA", "BANIDA"}

\* the texts a run can hold
Texts == {fullText(inp) : inp \in Inputs}

\* the text contains at least one term of the banned list
HasBannedTerm(t) == \E k \in 1..Len(BANNED) : includes(toLowerCase(t), BANNED[k])

BannedTexts == {t \in Texts : HasBannedTerm(t)}
AdjustTexts == {t \in Texts : ~HasBannedTerm(t) /\ evaluateText(t).score >= 40}
PublishTexts == {t \in Texts : ~HasBannedTerm(t) /\ evaluateText(t).score < 40}

\* the handler executions under way for job j
RunningFor(j) ==
  BagCardinality([e \in {x \in Executions : x.rid = j} |-> running[e]])

\* the handler executions started so far for job j: each one returned, had
\* an await rejected, or is under way
Attempts(j) == returned[j] + rejected[j] + RunningFor(j)

\* the ledger rows of listing id
EventsOf(id) == {ev \in BagToSet(ledger) : ev.recompensaId = id}

\* ---------------------------------------------------------------- C1
\* C1: of the executions of one listing's moderation job, exactly one
\* performs the status/riskScore write and every other is a no-op on the
\* store: status/riskScore are written exactly once per listing.
C1_WrittenOnce == \A id \in DOMAIN store : writes[id] <= 1

\* ---------------------------------------------------------------- C2
\* C2: a listing's status changes at most once, only from EM_REVISAO to
\* PUBLICADA or BANIDA; once it is PUBLICADA or BANIDA neither status nor
\* riskScore takes another value, and no step sets it back to EM_REVISAO.
C2_TerminalIsFinal ==
  [][\A id \in DOMAIN store :
       /\ store'[id].status \in Terminal \cup {"EM_REVISAO"}
       /\ store[id].status \in Terminal =>
            /\ store'[id].status = store[id].status
            /\ store'[id].riskScore = store[id].riskScore
       /\ store'[id].status = "EM_REVISAO" => store[id].status = "EM_REVISAO"]_vars

\* a terminal listing whose job was handled again: its row was written twice
C2_Witness ==
  \E id \in DOMAIN store : store[id].status \in Terminal /\ writes[id] >= 2

\* ---------------------------------------------------------------- C3
\* C3: the store update and the ledger append are one atomic unit: once no
\* handler attempt is under way for a listing, its status is PUBLICADA or
\* BANIDA only if the ledger holds the matching APROVAR or REJEITAR event.
C3_UpdateAndAppendAtomic ==
  \A id \in DOMAIN store :
    (id \in enqueued /\ RunningFor(id) = 0) =>
      /\ store[id].status = "BANIDA" => \E ev \in EventsOf(id) : ev.acao = "REJEITAR"
      /\ store[id].status = "PUBLICADA" => \E ev \in EventsOf(id) : ev.acao = "APROVAR"

\* ---------------------------------------------------------------- C4
\* C4: the insert and the enqueue are one unit: for every listing that
\* POST /recompensas persists, a moderation job for it is eventually
\* enqueued, also when the queue write fails.
C4_EventuallyEnqueued ==
  \A id \in 1..MaxListings : [](id \in DOMAIN store => <>(id \in enqueued))

\* ---------------------------------------------------------------- C5
\* C5 as stated: the handler is started at most 3 times in total per job.
C5_AtMostThreeStarts == \A j \in enqueued : Attempts(j) <= attempts

\* the handler execution e ends in this step
Ends(e) == running' = running (-) SetToBag({e})

\* C5, amended: a job in the queue has fewer than 3 counted attempts; an
\* attempt that fails holding the job's lock is retried only while fewer than
\* 3 attempts are counted, and the third such failure removes the job; an
\* attempt that returns holding the lock removes the job; a removed job is
\* never in the queue or started again; redeliveries of a stalled job
\* (at most maxStalledCount per job) are not counted, so the handler starts
\* at most attempts + maxStalledCount times.
C5_RetryPolicy ==
  /\ [](\A j \in enqueued :
          /\ Attempts(j) <= attempts + maxStalledCount
          /\ j \in DOMAIN queue => queue[j].attemptsMade < attempts)
  /\ [][/\ \A e \in Executions :
             (Ends(e) /\ e.lock) =>
               IF rejected'[e.rid] = rejected[e.rid]
                 THEN e.rid \notin DOMAIN queue'
                 ELSE IF queue[e.rid].attemptsMade + 1 < attempts
                   THEN /\ e.rid \in DOMAIN queue'
                        /\ queue'[e.rid].state = "wait"
                        /\ queue'[e.rid].attemptsMade = queue[e.rid].attemptsMade + 1
                   ELSE e.rid \notin DOMAIN queue'
        /\ \A j \in enqueued :
             j \notin DOMAIN queue =>
               /\ j \notin DOMAIN queue'
               /\ Attempts(j)' = Attempts(j)]_vars

\* a job redelivered after a stall and removed by its third counted failure:
\* its handler started four times
C5_Witness ==
  \E j \in enqueued :
    /\ j \notin DOMAIN queue
    /\ Attempts(j) = attempts + maxStalledCount
    /\ rejected[j] = Attempts(j)

\* ---------------------------------------------------------------- C6
\* C6: riskScore is set if and only if status is PUBLICADA or BANIDA; a
\* listing is created EM_REVISAO with no riskScore, whatever the caller sent.
C6_RiskScoreIffTerminal ==
  \A id \in DOMAIN store :
    /\ store[id].riskScore # Unset <=> store[id].status \in Terminal
    /\ id \in pending => store[id].status = "EM_REVISAO" /\ store[id].riskScore = Unset

C6_Witness ==
  /\ \E id \in DOMAIN store : store[id].status \in Terminal /\ store[id].riskScore # Unset
  /\ \E inp \in Inputs : inp.status # "EM_REVISAO"

\* ---------------------------------------------------------------- C7
\* C7: for a listing whose text holds a banned term, every handler execution
\* that returns leaves status BANIDA, riskScore the scorer's score, and a
\* REJEITAR event whose motivo is the joined flags.
C7_BannedIsRejected ==
  \A id \in DOMAIN store :
    (fullText(store[id]) \in BannedTexts /\ id \in enqueued /\ returned[id] >= 1) =>
      LET ev == Evaluated[fullText(store[id])]
      IN  /\ store[id].status = "BANIDA"
          /\ store[id].riskScore = <<ev.score>>
          /\ CopiesIn(Evento(id, "REJEITAR", join(ev.flags)), ledger) >= returned[id]

C7_Witness ==
  \E id \in DOMAIN store :
    /\ fullText(store[id]) \in BannedTexts
    /\ id \in enqueued
    /\ returned[id] >= 1
    /\ \E k \in 1..Len(SENSITIVE) : includes(toLowerCase(fullText(store[id])), SENSITIVE[k])

\* ---------------------------------------------------------------- C8
\* C8: a listing whose text holds no banned term and scores at least 40 is
\* EM_REVISAO with no riskScore in every state, and every handler execution
\* that returns leaves an AJUSTAR event whose motivo is the joined flags.
C8_AdjustStaysInReview ==
  \A id \in DOMAIN store :
    fullText(store[id]) \in AdjustTexts =>
      LET ev == Evaluated[fullText(store[id])]
      IN  /\ store[id].status = "EM_REVISAO"
          /\ store[id].riskScore = Unset
          /\ id \in enqueued =>
               CopiesIn(Evento(id, "AJUSTAR", join(ev.flags)), ledger) >= returned[id]

C8_Witness ==
  \E id \in DOMAIN store :
    /\ fullText(store[id]) \in AdjustTexts
    /\ id \in enqueued
    /\ returned[id] >= 1
    /\ id \notin DOMAIN queue

\* ---------------------------------------------------------------- C9
\* C9: for a listing whose text holds no banned term and scores below 40,
\* every handler execution that returns leaves status PUBLICADA, riskScore
\* the scorer's score, and an APROVAR event whose motivo is "auto".
C9_LowScoreIsPublished ==
  \A id \in DOMAIN store :
    (fullText(store[id]) \in PublishTexts /\ id \in enqueued /\ returned[id] >= 1) =>
      /\ store[id].status = "PUBLICADA"
      /\ store[id].riskScore = <<Evaluated[fullText(store[id])].score>>
      /\ CopiesIn(Evento(id, "APROVAR", Auto), ledger) >= returned[id]

C9_Witness ==
  \E id \in DOMAIN store :
    /\ fullText(store[id]) \in PublishTexts
    /\ id \in enqueued
    /\ returned[id] >= 1
    /\ Evaluated[fullText(store[id])].flags # <<>>

\* --------------------------------------------------------------- C10
\* C10: a handler execution whose listing is absent from the store never
\* goes past findUnique and appends no event; when it ends without a
\* rejected await it has returned, the store and the ledger are as before,
\* and the job is removed, not retried, if the execution held its lock.
C10_AbsentListingIsNoOp ==
  /\ [](\A e \in Executions :
          e.rid \notin DOMAIN store => e.pc = "find" /\ EventsOf(e.rid) = {})
  /\ [][\A e \in Executions :
          (e.rid \notin DOMAIN store /\ Ends(e) /\ rejected' = rejected) =>
            /\ returned'[e.rid] = returned[e.rid] + 1
            /\ store' = store
            /\ ledger' = ledger
            /\ IF e.lock THEN e.rid \notin DOMAIN queue' ELSE queue' = queue]_vars

\* the job of the deleted listing was handled, no await rejected, and is gone
C10_Witness ==
  /\ DeletedId \in enqueued
  /\ DeletedId \notin DOMAIN store
  /\ returned[DeletedId] >= 1
  /\ rejected[DeletedId] = 0
  /\ DeletedId \notin DOMAIN queue
  /\ ledger = EmptyBag

\* --------------------------------------------------------------- C11
\* the ids of the listings the last response shows, if it was a feed
Shown ==
  IF "body" \in DOMAIN resp THEN {resp.body[k].id : k \in 1..Len(resp.body)} ELSE {}

\* C11: the feed returns only listings whose status is PUBLICADA: a listing
\* the feed shows was updated by a worker before, and a listing whose text
\* holds a banned term or scores at least 40 is never shown.
C11_FeedOnlyPublished ==
  \A id \in DOMAIN store :
    /\ id \in Shown =>
         /\ store[id].status = "PUBLICADA"
         /\ writes[id] >= 1
    /\ fullText(store[id]) \in BannedTexts \cup AdjustTexts => id \notin Shown

\* a feed was served that shows a listing
C11_Witness == \E id \in DOMAIN store : id \in Shown /\ returned[id] >= 1

\* --------------------------------------------------------------- C12
\* C12: the enqueue comes after the committed insert: a request at its
\* enqueue step, a job in the queue and a job being handled each reference
\* a listing that is in the store, and the step that enqueues a job finds
\* its listing already stored.
C12_EnqueueAfterInsert ==
  /\ [](/\ pending \subseteq DOMAIN store
        /\ DOMAIN queue \subseteq DOMAIN store
        /\ \A e \in Executions : e.rid \in DOMAIN store)
  /\ [][\A j \in enqueued' \ enqueued : j \in DOMAIN store]_vars

\* a job of a stored listing is in the queue and being handled
C12_Witness ==
  \E e \in Executions :
    /\ e.rid \in DOMAIN queue
    /\ queue[e.rid].state = "active"
    /\ e.rid \in DOMAIN store

\* --------------------------------------------------------------- C13
\* C13: a POST /recompensas whose create is rejected answers with the error
\* in that same step (400), persists no listing and enqueues no job.
C13_RejectedInputLeavesNothing ==
  [][PostCreateRejected =>
       /\ resp'.code = 400
       /\ store' = store
       /\ pending' = pending
       /\ queue' = queue
       /\ enqueued' = enqueued]_vars

\* the error was answered with nothing stored and nothing enqueued
C13_Witness ==
  /\ resp = ErrorResponse
  /\ store = <<>>
  /\ enqueued = {}

\* --------------------------------------------------------------- C14
\* the step appends exactly one event, of listing id, to the ledger
AppendsOneFor(id) ==
  \E ev \in BagToSet(ledger') :
    /\ ev.recompensaId = id
    /\ ledger' = ledger (+) SetToBag({ev})

\* C14: the ledger is append-only and holds exactly one event per worker
\* decision: no step changes or removes an event, and a handler execution
\* that ends with its decision made and applied (it returned, or it threw
\* with the status already written) appended exactly one event for its
\* listing.
C14_OneEventPerDecision ==
  [][/\ ledger \sqsubseteq ledger'
     /\ \A e \in Executions :
          (/\ Ends(e)
           /\ e.pc # "find"
           /\ rejected' = rejected \/ e.pc \in {"ban_create", "pub_create"})
            => AppendsOneFor(e.rid)]_vars

\* --------------------------------------------------------------- C16
\* the list terms that occur in the lower-cased text t
Occurring(words, t) ==
  LET l == toLowerCase(t)
  IN  {k \in 1..Len(words) : includes(l, words[k])}

\* the flag the scorer gives term k of a list
Flag(prefix, words, k) == prefix \o <<":">> \o words[k]

\* C16: the flags of evaluateText are exactly one BANNED:<term> per banned
\* term occurring in the lower-cased text and one SENSITIVE:<term> per
\* sensitive term occurring, no other flag, the BANNED flags first, each
\* group in the order of its list; the score is 100 per BANNED flag plus 30
\* per SENSITIVE flag plus 5 for the currency pattern plus 5 for an urgency
\* marker.
C16_FlagsAndScore ==
  scored # NotScored =>
    LET b  == Occurring(BANNED, text)
        s  == Occurring(SENSITIVE, text)
        nb == Cardinality(b)
        fl == scored.flags
        t  == toLowerCase(text)
    IN  /\ Len(fl) = nb + Cardinality(s)
        /\ \A k \in b : \E i \in 1..nb : fl[i] = Flag(BannedPrefix, BANNED, k)
        /\ \A k \in s : \E i \in (nb + 1)..Len(fl) : fl[i] = Flag(SensitivePrefix, SENSITIVE, k)
        /\ \A i, j \in 1..nb : \A k, l \in b :
             (i < j /\ fl[i] = Flag(BannedPrefix, BANNED, k)
                    /\ fl[j] = Flag(BannedPrefix, BANNED, l)) => k < l
        /\ \A i, j \in (nb + 1)..Len(fl) : \A k, l \in s :
             (i < j /\ fl[i] = Flag(SensitivePrefix, SENSITIVE, k)
                    /\ fl[j] = Flag(SensitivePrefix, SENSITIVE, l)) => k < l
        /\ scored.score =
             100 * nb + 30 * Cardinality(s)
               + (IF valoresTest(t) THEN 5 ELSE 0)
               + (IF includes(t, Urgente) \/ includes(t, Imediato) THEN 5 ELSE 0)

\* scored: a text with two banned terms, the one in upper case first in the
\* text and second in the list
C16_Witness ==
  /\ scored # NotScored
  /\ Cardinality(Occurring(BANNED, text)) = 2
  /\ SubSeq(text, 1, 4) = <<"A","R","M","A">>
  /\ Len(scored.flags) = 2

\* --------------------------------------------------------------- C15
\* the terms and patterns text t matches: banned terms, sensitive terms, the
\* currency numeral, the urgency marker
Matched(t) ==
  LET l == toLowerCase(t)
  IN  {<<"banned", k>> : k \in Occurring(BANNED, t)}
        \cup {<<"sensitive", k>> : k \in Occurring(SENSITIVE, t)}
        \cup (IF valoresTest(l) THEN {<<"valor", 0>>} ELSE {})
        \cup (IF includes(l, Urgente) \/ includes(l, Imediato)
                THEN {<<"urgency", 0>>} ELSE {})

\* what every text matches and the score evaluateText gives it, each
\* computed once
MatchedOf == [u \in ScorerTexts |-> Matched(u)]
ScoreOf == [u \in ScorerTexts |-> evaluateText(u).score]

\* C15: the score is monotonic and order-independent: a text that matches
\* at least the terms and patterns of the scored text scores at least as
\* much, and one that matches the same ones, in whatever order and however
\* often, scores the same.
C15_ScoreMonotonic ==
  scored # NotScored =>
    \A m \in {MatchedOf[text]} : \A u \in ScorerTexts : \A n \in {MatchedOf[u]} :
      /\ m \subseteq n => ScoreOf[u] >= scored.score
      /\ m = n => ScoreOf[u] = scored.score

\* scored: a text of one term, with another text that holds the term twice
\* and one that matches more; and a text of two terms, with another that
\* holds them in the other order
C15_Witness ==
  /\ scored # NotScored
  /\ \E m \in {MatchedOf[text]} :
       \/ /\ Cardinality(m) = 1
          /\ \E u \in ScorerTexts : Len(u) > Len(text) /\ MatchedOf[u] = m
          /\ \E u \in ScorerTexts : m \subseteq MatchedOf[u] /\ m # MatchedOf[u]
       \/ /\ Cardinality(m) = 2
          /\ \E u \in ScorerTexts :
               Len(u) = Len(text) /\ u # text /\ MatchedOf[u] = m

\* --------------------------------------------------------------- C17
\* C17: a PUBLICADA listing has a riskScore below 40 and a BANIDA listing a
\* riskScore of at least 100.
C17_ScoreMatchesStatus ==
  \A id \in DOMAIN store :
    /\ store[id].status = "PUBLICADA" =>
         store[id].riskScore # Unset /\ store[id].riskScore[1] < 40
    /\ store[id].status = "BANIDA" =>
         store[id].riskScore # Unset /\ store[id].riskScore[1] >= 100

\* a listing published with a score that is not zero
C17_Witness ==
  \E id \in DOMAIN store :
    /\ store[id].status = "PUBLICADA"
    /\ store[id].riskScore # Unset
    /\ store[id].riskScore[1] > 0

\* --------------------------------------------------------------- C18
\* the status a listing has when the ledger holds an event with this acao
StatusOf(acao) ==
  CASE acao = "REJEITAR" -> "BANIDA"
    [] acao = "APROVAR" -> "PUBLICADA"
    [] acao = "AJUSTAR" -> "EM_REVISAO"

\* C18: ledger and store agree: the events of one listing all carry the same
\* acao; a REJEITAR event is there only for a BANIDA listing, an APROVAR
\* event only for a PUBLICADA one, an AJUSTAR event only for one EM_REVISAO.
C18_LedgerAgreesWithStore ==
  \A ev \in BagToSet(ledger) :
    /\ ev.recompensaId \in DOMAIN store
    /\ store[ev.recompensaId].status = StatusOf(ev.acao)
    /\ \A other \in EventsOf(ev.recompensaId) : other.acao = ev.acao

\* a job delivered twice left two events for its listing
C18_Witness ==
  \E ev \in BagToSet(ledger) :
    /\ CopiesIn(ev, ledger) >= 2
    /\ returned[ev.recompensaId] >= 2

\* --------------------------------------------------------------- C19
\* listing id is decided: PUBLICADA or BANIDA, or an AJUSTAR event is there
Decided(id) ==
  /\ id \in DOMAIN store
  /\ \/ store[id].status \in Terminal
     \/ \E ev \in EventsOf(id) : ev.acao = "AJUSTAR"

\* C19: with the worker running and no await rejecting, every listing
\* whose POST /recompensas succeeded is eventually decided, with its job
\* out of the queue.
C19_EventuallyDecided ==
  \A id \in 1..MaxListings :
    (id \in enqueued) ~> (Decided(id) /\ id \notin DOMAIN queue)

\* a listing decided, its job gone, after a stalled delivery
C19_Witness ==
  \E id \in enqueued :
    /\ Decided(id)
    /\ id \notin DOMAIN queue
    /\ returned[id] >= 2
    /\ RunningFor(id) = 0

====
